---- MODULE Spec2Model ----
(***************************************************************************)
(* The layout store of the Mars Architect habitat designer                 *)
(* (src/components/habitat-designer.tsx): the React state of the          *)
(* HabitatDesigner component and its event handlers.                      *)
(*                                                                         *)
(* Every handler is one atomic action: React re-renders (and so rebuilds   *)
(* the handlers' closures over the state) between two user events.         *)
(* Besides the component's state the model keeps two bookkeeping           *)
(* variables: `last`, the handler the last event ran with its arguments    *)
(* and outcome, and `events`, the number of user events and clock ticks    *)
(* so far, which bounds the runs explored (MaxEvents); a pending timer     *)
(* can always fire.                                                        *)
(*                                                                         *)
(* Numbers.  The program's numbers are IEEE doubles; the model keeps them  *)
(* as exact fixed-point integers:                                          *)
(*   position   in units of 1/PosDen   (the position slider's step, 0.5)   *)
(*   scale      in units of 1/ScaleDen (the scale slider's step, 0.1)      *)
(*   cost, mass, volume in units of 1/ScaleDen^3, so base * scale^3 is     *)
(*              the integer base * S^3 for the stored scale S             *)
(*   rotation   in microradians (PI is Math.PI in that unit)               *)
(***************************************************************************)
EXTENDS Integers, Sequences, FiniteSets, TLC

VARIABLES
    modules,            \* useState<ModuleData[]>: the layout, in insertion order
    selectedModuleId,   \* useState<string | null>
    collisionError,     \* useState<string | null>: the collision notice
    timers,             \* pending setTimeout(() => setCollisionError(null), 3000)
    storage,            \* localStorage["mars-architect-design"]
    clock,              \* the reading Date.now() returns
    events,             \* how many user events and clock ticks there have been
    mounted,            \* the component is rendered (no render has thrown)
    probe,              \* a derived value evaluated on drawn inputs
    last                \* the handler the last event ran, its arguments and outcome

vars == <<modules, selectedModuleId, collisionError, timers, storage, clock, events,
          mounted, probe, last>>

----------------------------------------------------------------------------
(* Bounds of the model *)

\* most modules a layout holds (addModule is disabled beyond it)
MaxModules == 2
\* clock readings are 0..MaxClock
MaxClock == 1
\* most pending auto-clear timers (a failing handler is disabled beyond it)
MaxTimers == 2
\* runs of at most MaxEvents events are explored
MaxEvents == 5
\* the first NumTypes entries of MODULE_SPECS are the types the user adds
NumTypes == 2

----------------------------------------------------------------------------
(* Units *)

PosDen == 2
ScaleDen == 10
PI == 3141593

Cube(s) == s * s * s

Abs(x) == IF x < 0 THEN -x ELSE x

----------------------------------------------------------------------------
(* Module type table *)

TypeOrder == <<"dormitory", "eclss", "lab", "storage", "airlock", "greenhouse">>

ModuleType == {TypeOrder[i] : i \in 1..Len(TypeOrder)}

MODULE_SPECS ==
    [t \in ModuleType |->
        CASE t = "dormitory"  -> [baseCost |-> 45,  baseMass |-> 8000,  baseVolume |-> 120]
          [] t = "eclss"      -> [baseCost |-> 150, baseMass |-> 12000, baseVolume |-> 80]
          [] t = "lab"        -> [baseCost |-> 85,  baseMass |-> 10000, baseVolume |-> 150]
          [] t = "storage"    -> [baseCost |-> 25,  baseMass |-> 5000,  baseVolume |-> 60]
          [] t = "airlock"    -> [baseCost |-> 35,  baseMass |-> 6000,  baseVolume |-> 40]
          [] t = "greenhouse" -> [baseCost |-> 65,  baseMass |-> 9000,  baseVolume |-> 100]]

----------------------------------------------------------------------------
(* Inputs the events carry *)

AddTypes == {TypeOrder[i] : i \in 1..NumTypes}

ClockValues == 0..MaxClock

Axes == {"x", "y", "z"}

\* positions the sliders and number fields send: 0 and 2.0
PosInputs == {0, 4}

\* degrees the rotation controls send
DegInputs == {90}

\* scales the scale controls send: 0.5, 1 and 2
ScaleInputs == {5, 10, 20}

----------------------------------------------------------------------------
(* Values *)

Null == "null"

\* localStorage.getItem(...) of a slot never written: null
NoItem == [kind |-> "none", value |-> <<>>]

\* no derived value has been evaluated
NoProbe == [fn |-> "none", input |-> <<>>, output |-> <<>>]

CollisionMessage == "Collision Error! Geometry overlap not permitted."

\* `${type}-${Date.now()}`: the type, a dash, the clock reading in decimal
MakeId(type, now) == type \o "-" \o ToString(now)

AllIds == {MakeId(t, n) : t \in AddTypes, n \in ClockValues}

axisIndex(axis) == CASE axis = "x" -> 1 [] axis = "y" -> 2 [] axis = "z" -> 3

\* checkAABBCollision, size = 2.  With P = PosDen * p and S = ScaleDen * s,
\*   |p1 - p2| < halfSize1 + halfSize2,  halfSize = (size * s) / 2
\* is, times 2 * PosDen * ScaleDen,
\*   2 * ScaleDen * |P1 - P2| < PosDen * (size * S1 + size * S2).
Size == 2

\* a slip: boxes that touch count as overlapping
AxisOverlapInclusive(a, b, scale1, scale2) ==
    2 * ScaleDen * Abs(a - b) <= PosDen * (Size * scale1 + Size * scale2)

AxisOverlap(a, b, scale1, scale2) ==
    2 * ScaleDen * Abs(a - b) < PosDen * (Size * scale1 + Size * scale2)

checkAABBCollision(pos1, scale1, pos2, scale2) ==
    /\ AxisOverlap(pos1[1], pos2[1], scale1, scale2)
    /\ AxisOverlap(pos1[2], pos2[2], scale1, scale2)
    /\ AxisOverlap(pos1[3], pos2[3], scale1, scale2)

\* a slip: with no module of that id the first module of the layout is taken
FirstIndexOrFirst(id) ==
    IF \E i \in 1..Len(modules) : modules[i].id = id
    THEN CHOOSE i \in 1..Len(modules) :
            /\ modules[i].id = id
            /\ \A j \in 1..(i - 1) : modules[j].id # id
    ELSE IF modules = <<>> THEN 0 ELSE 1

\* modules.find((m) => m.id === selectedModuleId): the index of the first
\* module with the selected id, 0 when there is none.
FirstIndex(id) ==
    IF \E i \in 1..Len(modules) : modules[i].id = id
    THEN CHOOSE i \in 1..Len(modules) :
            /\ modules[i].id = id
            /\ \A j \in 1..(i - 1) : modules[j].id # id
    ELSE 0

selectedIndex == FirstIndex(selectedModuleId)

Called(op, type, id, axis, value, outcome) ==
    [op |-> op, type |-> type, id |-> id, axis |-> axis, value |-> value,
     outcome |-> outcome]

\* one more event is handled; an unmounted component handles none
Event ==
    /\ mounted
    /\ events < MaxEvents
    /\ events' = events + 1

\* a slip: the notice is raised and no timer is started to clear it
RaiseCollisionNoTimer ==
    /\ collisionError' = CollisionMessage
    /\ timers' = timers

\* a handler that finds a collision: the notice and one more auto-clear timer
RaiseCollision ==
    /\ collisionError' = CollisionMessage
    /\ timers' = timers + 1

----------------------------------------------------------------------------
(* Initial state: the component's useState initial values, an empty save slot *)

Init ==
    /\ modules = <<>>
    /\ selectedModuleId = Null
    /\ collisionError = Null
    /\ timers = 0
    /\ storage = NoItem
    /\ clock = 0
    /\ events = 0
    /\ mounted = TRUE
    /\ probe = NoProbe
    /\ last = Called("init", Null, Null, Null, 0, "ok")

----------------------------------------------------------------------------
(* Handlers *)

\* a slip: the new module takes the clicked type's mass as its cost
NewModuleCostFromMass(type) ==
    [id       |-> MakeId(type, clock),
     type     |-> type,
     position |-> <<0, 0, 0>>,
     rotation |-> <<0, 0, 0>>,
     scale    |-> ScaleDen,
     cost     |-> MODULE_SPECS[type].baseMass * Cube(ScaleDen),
     mass     |-> MODULE_SPECS[type].baseMass * Cube(ScaleDen),
     volume   |-> MODULE_SPECS[type].baseVolume * Cube(ScaleDen)]

NewModule(type) ==
    [id       |-> MakeId(type, clock),
     type     |-> type,
     position |-> <<0, 0, 0>>,
     rotation |-> <<0, 0, 0>>,
     scale    |-> ScaleDen,
     cost     |-> MODULE_SPECS[type].baseCost * Cube(ScaleDen),
     mass     |-> MODULE_SPECS[type].baseMass * Cube(ScaleDen),
     volume   |-> MODULE_SPECS[type].baseVolume * Cube(ScaleDen)]

\* a slip: the test looks at the x axis alone
AddHasCollisionXOnly(newModule) ==
    \E i \in 1..Len(modules) :
        AxisOverlap(newModule.position[1], modules[i].position[1],
                    newModule.scale, modules[i].scale)

AddHasCollision(newModule) ==
    \E i \in 1..Len(modules) :
        checkAABBCollision(newModule.position, newModule.scale,
                           modules[i].position, modules[i].scale)

addModule(type) ==
    LET newModule == NewModule(type)
        hasCollision == AddHasCollision(newModule)
    IN  /\ Event
        /\ hasCollision => timers < MaxTimers
        /\ ~hasCollision => Len(modules) < MaxModules
        /\ IF hasCollision
           THEN /\ RaiseCollision
                /\ last' = Called("add", type, Null, Null, 0, "collision")
                /\ UNCHANGED <<modules, selectedModuleId>>
           ELSE /\ modules' = Append(modules, newModule)
                /\ selectedModuleId' = newModule.id
                /\ last' = Called("add", type, Null, Null, 0, "ok")
                /\ UNCHANGED <<collisionError, timers>>
        /\ UNCHANGED <<storage, clock, mounted, probe>>

\* a slip: the filter keeps the module it should drop
KeepInverted(id, m) == m.id = id

\* a slip: every delete clears the selection
SelectionAlwaysCleared(id) == Null

\* modules.filter((m) => m.id !== id)
Keep(id, m) == m.id # id

\* if (selectedModuleId === id) setSelectedModuleId(null)
SelectionAfterDelete(id) == IF selectedModuleId = id THEN Null ELSE selectedModuleId

deleteModule(id) ==
    /\ Event
    /\ modules' = SelectSeq(modules, LAMBDA m : Keep(id, m))
    /\ selectedModuleId' = SelectionAfterDelete(id)
    /\ last' = Called("delete", Null, id, Null, 0, "ok")
    /\ UNCHANGED <<collisionError, timers, storage, clock, mounted, probe>>

\* onClick={() => setSelectedModuleId(module.id)} of a rendered module
selectModule(i) ==
    /\ Event
    /\ i \in 1..Len(modules)
    /\ selectedModuleId' = modules[i].id
    /\ last' = Called("select", Null, modules[i].id, Null, 0, "ok")
    /\ UNCHANGED <<modules, collisionError, timers, storage, clock, mounted, probe>>

\* a slip: the degrees are stored unconverted
ToRadiansUnconverted(degrees) == degrees

\* degrees * Math.PI / 180, in microradians
ToRadians(degrees) == (degrees * PI) \div 180

\* newPosition = [...selectedModule.position]; newPosition[axisIndex] = value
NewPosition(axis, value) ==
    [modules[selectedIndex].position EXCEPT ![axisIndex(axis)] = value]

\* modules.some((m) => m.id !== selectedModule.id && checkAABBCollision(...))
OtherCollides(i, position, scale) ==
    /\ modules[i].id # modules[selectedIndex].id
    /\ checkAABBCollision(position, scale, modules[i].position, modules[i].scale)

EditHasCollision(position, scale) ==
    \E i \in 1..Len(modules) : OtherCollides(i, position, scale)

\* modules.map((m) => (m.id === selectedModule.id ? { ...m, position: newPosition } : m))
SetPosition(newPosition) ==
    [i \in 1..Len(modules) |->
        IF modules[i].id = modules[selectedIndex].id
        THEN [modules[i] EXCEPT !.position = newPosition]
        ELSE modules[i]]

updateModulePosition(axis, value) ==
    /\ Event
    /\ IF selectedIndex = 0
       THEN /\ last' = Called("position", Null, Null, axis, value, "noop")
            /\ UNCHANGED <<modules, collisionError, timers>>
       ELSE LET newPosition == NewPosition(axis, value)
                hasCollision == EditHasCollision(newPosition, modules[selectedIndex].scale)
            IN  /\ hasCollision => timers < MaxTimers
                /\ IF hasCollision
                   THEN /\ RaiseCollision
                        /\ last' = Called("position", Null, Null, axis, value, "collision")
                        /\ UNCHANGED modules
                   ELSE /\ modules' = SetPosition(newPosition)
                        /\ last' = Called("position", Null, Null, axis, value, "ok")
                        /\ UNCHANGED <<collisionError, timers>>
    /\ UNCHANGED <<selectedModuleId, storage, clock, mounted, probe>>

\* newRotation = [...selectedModule.rotation]; newRotation[axisIndex] = radians
NewRotation(axis, degrees) ==
    [modules[selectedIndex].rotation EXCEPT ![axisIndex(axis)] = ToRadians(degrees)]

\* modules.map((m) => (m.id === selectedModule.id ? { ...m, rotation: newRotation } : m))
SetRotation(newRotation) ==
    [i \in 1..Len(modules) |->
        IF modules[i].id = modules[selectedIndex].id
        THEN [modules[i] EXCEPT !.rotation = newRotation]
        ELSE modules[i]]

updateModuleRotation(axis, degrees) ==
    /\ Event
    /\ IF selectedIndex = 0
       THEN /\ last' = Called("rotation", Null, Null, axis, degrees, "noop")
            /\ UNCHANGED modules
       ELSE /\ modules' = SetRotation(NewRotation(axis, degrees))
            /\ last' = Called("rotation", Null, Null, axis, degrees, "ok")
    /\ UNCHANGED <<selectedModuleId, collisionError, timers, storage, clock, mounted, probe>>

\* volumeRatio = Math.pow(scale, 3), here times ScaleDen^3
\* a slip: the ratio is the square of the scale
VolumeRatioSquared(scale) == scale * scale * ScaleDen

VolumeRatio(scale) == Cube(scale)

\* a slip: the new values are scaled from the module's cached values
RescaledFromCached(m, scale) ==
    LET volumeRatio == VolumeRatio(scale)
    IN  [m EXCEPT !.scale  = scale,
                  !.cost   = (m.cost \div Cube(ScaleDen)) * volumeRatio,
                  !.mass   = (m.mass \div Cube(ScaleDen)) * volumeRatio,
                  !.volume = (m.volume \div Cube(ScaleDen)) * volumeRatio]

Rescaled(m, scale) ==
    LET spec == MODULE_SPECS[modules[selectedIndex].type]
        volumeRatio == VolumeRatio(scale)
    IN  [m EXCEPT !.scale  = scale,
                  !.cost   = spec.baseCost * volumeRatio,
                  !.mass   = spec.baseMass * volumeRatio,
                  !.volume = spec.baseVolume * volumeRatio]

SetScale(scale) ==
    [i \in 1..Len(modules) |->
        IF modules[i].id = modules[selectedIndex].id
        THEN Rescaled(modules[i], scale)
        ELSE modules[i]]

updateModuleScale(scale) ==
    /\ Event
    /\ IF selectedIndex = 0
       THEN /\ last' = Called("scale", Null, Null, Null, scale, "noop")
            /\ UNCHANGED <<modules, collisionError, timers>>
       ELSE LET hasCollision == EditHasCollision(modules[selectedIndex].position, scale)
            IN  /\ hasCollision => timers < MaxTimers
                /\ IF hasCollision
                   THEN /\ RaiseCollision
                        /\ last' = Called("scale", Null, Null, Null, scale, "collision")
                        /\ UNCHANGED modules
                   ELSE /\ modules' = SetScale(scale)
                        /\ last' = Called("scale", Null, Null, Null, scale, "ok")
                        /\ UNCHANGED <<collisionError, timers>>
    /\ UNCHANGED <<selectedModuleId, storage, clock, mounted, probe>>

----------------------------------------------------------------------------
(* The save slot *)

\* a slip: every module is written as standing at the origin
StringifyModuleAtOrigin(m) ==
    << <<"id", m.id>>, <<"type", m.type>>, <<"position", <<0, 0, 0>>>>,
       <<"rotation", m.rotation>>, <<"scale", m.scale>>, <<"cost", m.cost>>,
       <<"mass", m.mass>>, <<"volume", m.volume>> >>

\* JSON.stringify of a module: an object, its properties in the order of
\* the module's own (a JSON object is a sequence of <<key, value>> pairs)
StringifyModule(m) ==
    << <<"id", m.id>>, <<"type", m.type>>, <<"position", m.position>>,
       <<"rotation", m.rotation>>, <<"scale", m.scale>>, <<"cost", m.cost>>,
       <<"mass", m.mass>>, <<"volume", m.volume>> >>

\* new Date().toISOString() at a clock reading of a few milliseconds
ToISOString(now) == "1970-01-01T00:00:00.00" \o ToString(now) \o "Z"

\* JSON.stringify({ modules, timestamp: new Date().toISOString() })
StringifyDesign(layout, now) ==
    [kind  |-> "jsonObject",
     value |-> << <<"modules", [i \in 1..Len(layout) |-> StringifyModule(layout[i])]>>,
                  <<"timestamp", ToISOString(now)>> >>]

\* obj[key] of a parsed JSON object: whether it is there, and its value
Has(obj, key) == \E i \in 1..Len(obj) : obj[i][1] = key

Get(obj, key) == obj[CHOOSE i \in 1..Len(obj) : obj[i][1] = key][2]

\* the module a parsed module object is
ParseModule(obj) ==
    [id       |-> Get(obj, "id"),
     type     |-> Get(obj, "type"),
     position |-> Get(obj, "position"),
     rotation |-> Get(obj, "rotation"),
     scale    |-> Get(obj, "scale"),
     cost     |-> Get(obj, "cost"),
     mass     |-> Get(obj, "mass"),
     volume   |-> Get(obj, "volume")]

ParseModules(array) == [i \in 1..Len(array) |-> ParseModule(array[i])]

\* alert(...) of saveDesign and loadDesign; the date of the loaded design is
\* left out of the text
SavedAlert == "Design saved successfully!"
LoadedAlert == "Design loaded from"
FailedAlert == "Failed to load design"
NothingAlert == "No saved design found"

saveDesign ==
    /\ Event
    /\ storage' = StringifyDesign(modules, clock)
    /\ last' = Called("save", Null, Null, Null, 0, SavedAlert)
    /\ UNCHANGED <<modules, selectedModuleId, collisionError, timers, clock, mounted, probe>>

\* if (saved): getItem gave a string, and not the empty one
Truthy(saved) == saved.kind \notin {"none", "empty"}

\* JSON.parse(saved) throws a SyntaxError
ParseThrows(saved) == saved.kind = "garbage"

\* designData.modules throws a TypeError: designData is null
ReadThrows(saved) == saved.kind = "jsonNull"

\* a slip: an absent record is reported as a failed load
LoadAlertAbsentFails(saved) ==
    IF ~Truthy(saved) \/ ParseThrows(saved) \/ ReadThrows(saved) THEN FailedAlert
    ELSE LoadedAlert

\* the alert loadDesign ends with
LoadAlert(saved) ==
    IF ~Truthy(saved) THEN NothingAlert
    ELSE IF ParseThrows(saved) \/ ReadThrows(saved) THEN FailedAlert
    ELSE LoadedAlert

\* setModules(designData.modules); setSelectedModuleId(null).  When
\* designData has no modules the layout becomes undefined: the next render
\* throws at modules.find (line 145) and React unmounts the component, its
\* state with it.
loadDesign ==
    /\ Event
    /\ last' = Called("load", Null, Null, Null, 0, LoadAlert(storage))
    /\ IF LoadAlert(storage) # LoadedAlert
       THEN UNCHANGED <<modules, selectedModuleId, mounted>>
       ELSE IF Has(storage.value, "modules")
       THEN /\ modules' = ParseModules(Get(storage.value, "modules"))
            /\ selectedModuleId' = Null
            /\ UNCHANGED mounted
       ELSE /\ modules' = <<>>
            /\ selectedModuleId' = Null
            /\ mounted' = FALSE
    /\ UNCHANGED <<collisionError, timers, storage, clock, probe>>

\* The callback of a pending setTimeout: setCollisionError(null).  All
\* timers have the same delay, so they fire in the order they were started:
\* the one that fires is the oldest, and the newest error's timer is the
\* last to fire.
TimerFires ==
    /\ timers > 0
    /\ timers' = timers - 1
    /\ collisionError' = Null
    /\ last' = Called("timer", Null, Null, Null, 0, "ok")
    /\ UNCHANGED <<modules, selectedModuleId, storage, clock, events, mounted, probe>>

\* time passes: Date.now() returns a later reading
Tick ==
    /\ Event
    /\ clock < MaxClock
    /\ clock' = clock + 1
    /\ last' = Called("tick", Null, Null, Null, 0, "ok")
    /\ UNCHANGED <<modules, selectedModuleId, collisionError, timers, storage, mounted, probe>>

Next ==
    \/ \E type \in AddTypes : addModule(type)
    \/ \E id \in AllIds : deleteModule(id)
    \/ \E i \in 1..MaxModules : selectModule(i)
    \/ \E axis \in Axes, value \in PosInputs : updateModulePosition(axis, value)
    \/ \E axis \in Axes, degrees \in DegInputs : updateModuleRotation(axis, degrees)
    \/ \E scale \in ScaleInputs : updateModuleScale(scale)
    \/ saveDesign
    \/ loadDesign
    \/ TimerFires
    \/ Tick

Spec == Init /\ [][Next]_vars

\* The browser runs the callback of every pending timer.
SpecLive == Spec /\ WF_vars(TimerFires)

\* What the slot may hold when the page opens: localStorage outlives the
\* page, and any script of the origin may have written the slot.
\*   nothing; ""; text that is no JSON; "null"; an object without modules;
\*   a design this program saved
StoredLayout ==
    << [id       |-> MakeId("dormitory", 0),
        type     |-> "dormitory",
        position |-> <<4, 0, 0>>,
        rotation |-> <<0, 0, 0>>,
        scale    |-> ScaleDen,
        cost     |-> MODULE_SPECS["dormitory"].baseCost * Cube(ScaleDen),
        mass     |-> MODULE_SPECS["dormitory"].baseMass * Cube(ScaleDen),
        volume   |-> MODULE_SPECS["dormitory"].baseVolume * Cube(ScaleDen)] >>

StoredTexts ==
    { NoItem,
      [kind |-> "empty", value |-> <<>>],
      [kind |-> "garbage", value |-> <<>>],
      [kind |-> "jsonNull", value |-> <<>>],
      [kind |-> "jsonObject", value |-> << <<"timestamp", ToISOString(0)>> >>],
      StringifyDesign(StoredLayout, 0) }

InitStored ==
    /\ modules = <<>>
    /\ selectedModuleId = Null
    /\ collisionError = Null
    /\ timers = 0
    /\ storage \in StoredTexts
    /\ clock = 0
    /\ events = 0
    /\ mounted = TRUE
    /\ probe = NoProbe
    /\ last = Called("init", Null, Null, Null, 0, "ok")

SpecStored == InitStored /\ [][Next]_vars

----------------------------------------------------------------------------
(* Derived metrics.  Cost, mass and volume are in thousandths (Cube(ScaleDen)
   to the unit), as the modules' cached values are. *)

\* modules.reduce((sum, m) => sum + m[field], 0) over the first n modules
RECURSIVE Reduce(_, _, _)
Reduce(layout, field, n) ==
    IF n = 0 THEN 0 ELSE Reduce(layout, field, n - 1) + layout[n][field]

BASE_HABITAT_MASS == 10000

totalHardwareCost == Reduce(modules, "cost", Len(modules))

\* a slip: the base structural mass is left out
totalMassOfModules == Reduce(modules, "mass", Len(modules))

totalMass == BASE_HABITAT_MASS * Cube(ScaleDen) + Reduce(modules, "mass", Len(modules))

totalVolume == Reduce(modules, "volume", Len(modules))

\* required = 115.83, in thousandths
NhvRequired == 115830

\* a slip: the requirement must be exceeded
nhvPassStrict(volume) == volume > NhvRequired

\* pass: totalVolume >= required
nhvPass(volume) == volume >= NhvRequired

nhvCompliance == [actual |-> totalVolume, required |-> NhvRequired, pass |-> nhvPass(totalVolume)]

\* the mass above which the larger vehicle is chosen, in kg
VehicleLimit == 50000

\* a slip: the limit itself already selects the larger vehicle
vehicleInclusive(mass) ==
    IF mass >= VehicleLimit * Cube(ScaleDen) THEN "Starship HLS Variant" ELSE "Ares V Heavy Lift"

\* vehicle: totalMass > 50000 ? "Starship HLS Variant" : "Ares V Heavy Lift"
vehicle(mass) ==
    IF mass > VehicleLimit * Cube(ScaleDen) THEN "Starship HLS Variant" ELSE "Ares V Heavy Lift"

logistics == [vehicle |-> vehicle(totalMass)]

\* shieldingScore = modules.length * 15 + totalMass / 1000, required = 200
ShieldingPerModule == 15
MassPerPoint == 1000
ShieldingRequired == 200

\* a score of 1, as the scores below are written: with the mass in
\* thousandths of a kg, the score times MassPerPoint * Cube(ScaleDen)
ScorePoint == MassPerPoint * Cube(ScaleDen)

shieldingScore(count, mass) == count * ShieldingPerModule * ScorePoint + mass

\* a slip: the required score must be exceeded
shieldingPassStrict(count, mass) ==
    shieldingScore(count, mass) > ShieldingRequired * ScorePoint

\* pass: shieldingScore >= required
shieldingPass(count, mass) ==
    shieldingScore(count, mass) >= ShieldingRequired * ScorePoint

radiationShielding ==
    [score    |-> shieldingScore(Len(modules), totalMass),
     required |-> ShieldingRequired * ScorePoint,
     pass     |-> shieldingPass(Len(modules), totalMass)]

----------------------------------------------------------------------------
(* The pure functions on drawn inputs *)

\* total volumes around the requirement, and that of the empty layout
VolumeInputs == {0, 15000, 115820, 115829, 115830, 115831, 120000, 200000}

\* total masses around the limit, and that of the empty layout
MassInputs == {10000000, 30000000, 49999999, 50000000, 50000001, 50001000, 106000000}

\* module counts, and total masses that bring the score to 200 or next to
\* it with them (200000, 185000, 170000 kg), and that of the empty layout
CountInputs == 0..2

ShieldingMassInputs ==
    {10000000, 169999999, 170000000, 170000001, 184999999, 185000000, 185000001,
     199999999, 200000000, 200000001}

\* coordinates 0, 1.5, 2.0 and 3.0
CoordInputs == {0, 3, 4, 6}

PositionInputs == {<<x, y, z>> : x \in CoordInputs, y \in CoordInputs, z \in CoordInputs}

Truth(b) == IF b THEN "true" ELSE "false"

Probed(fn, input, output) == [fn |-> fn, input |-> input, output |-> output]

\* nothing but the probe changes
ProbeFrame ==
    UNCHANGED <<modules, selectedModuleId, collisionError, timers, storage, clock,
                events, mounted, last>>

ProbeNhv(volume) ==
    /\ probe' = Probed("nhvCompliance", <<volume>>, Truth(nhvPass(volume)))
    /\ ProbeFrame

ProbeVehicle(mass) ==
    /\ probe' = Probed("logistics", <<mass>>, vehicle(mass))
    /\ ProbeFrame

ProbeShielding(count, mass) ==
    /\ probe' = Probed("radiationShielding", <<count, mass>>, Truth(shieldingPass(count, mass)))
    /\ ProbeFrame

ProbeCollision(pos1, scale1, pos2, scale2) ==
    /\ probe' = Probed("checkAABBCollision", pos1 \o <<scale1>> \o pos2 \o <<scale2>>,
                       Truth(checkAABBCollision(pos1, scale1, pos2, scale2)))
    /\ ProbeFrame

\* one evaluation per run, on inputs drawn from the sets above
NextPure ==
    \/ probe = NoProbe /\ \E volume \in VolumeInputs : ProbeNhv(volume)
    \/ probe = NoProbe /\ \E mass \in MassInputs : ProbeVehicle(mass)
    \/ probe = NoProbe /\ \E count \in CountInputs, mass \in ShieldingMassInputs :
                             ProbeShielding(count, mass)
    \/ probe = NoProbe /\ \E pos1 \in PositionInputs, pos2 \in PositionInputs,
                             scale1 \in ScaleInputs, scale2 \in ScaleInputs :
                                 ProbeCollision(pos1, scale1, pos2, scale2)

SpecPure == Init /\ [][NextPure]_vars

----------------------------------------------------------------------------
(* Vocabulary of the properties *)

Indices == 1..Len(modules)

\* the value a JSON object gives its property `key`
Field(obj, key) ==
    LET at == {i \in 1..Len(obj) : obj[i][1] = key}
    IN  obj[CHOOSE i \in at : TRUE][2]

\* the array a stored design gives its property "modules"
SavedModules(text) == Field(text.value, "modules")

\* The bounding box of a module: on every axis the open interval of half
\* width `scale` (edge 2 * scale) around its position, here times
\* PosDen * ScaleDen.
BoxLo(p, scale) == ScaleDen * p - PosDen * scale
BoxHi(p, scale) == ScaleDen * p + PosDen * scale

BoxesOverlap(pos1, scale1, pos2, scale2) ==
    \A k \in 1..3 :
        /\ BoxLo(pos1[k], scale1) < BoxHi(pos2[k], scale2)
        /\ BoxLo(pos2[k], scale2) < BoxHi(pos1[k], scale1)

\* the candidate overlaps some module of the layout other than the k-th
OverlapsOther(k, position, scale) ==
    \E i \in Indices \ {k} :
        BoxesOverlap(position, scale, modules[i].position, modules[i].scale)

Origin == <<0, 0, 0>>

\* the position the last call of updateModulePosition asked for
Candidate ==
    [modules[selectedIndex].position EXCEPT ![axisIndex(last'.axis)] = last'.value]

\* the last event called a handler with a candidate geometry that overlaps
\* another module of the layout
CollidingCall ==
    \/ /\ last'.op = "add"
       /\ OverlapsOther(0, Origin, ScaleDen)
    \/ /\ last'.op = "position"
       /\ selectedIndex # 0
       /\ OverlapsOther(selectedIndex, Candidate, modules[selectedIndex].scale)
    \/ /\ last'.op = "scale"
       /\ selectedIndex # 0
       /\ OverlapsOther(selectedIndex, modules[selectedIndex].position, last'.value)

----------------------------------------------------------------------------
(* C1 *)

\* C1: in every reachable state no two distinct modules of the layout
\* collide under the axis-aligned bounding-box predicate (edge 2 * scale).
C1_NoOverlap ==
    \A i, j \in Indices :
        i # j => ~BoxesOverlap(modules[i].position, modules[i].scale,
                              modules[j].position, modules[j].scale)

----------------------------------------------------------------------------
(* C2 *)

\* C2: whenever addModule, updateModulePosition or updateModuleScale is
\* called with a candidate geometry that collides with an existing other
\* module, the call fails with the collision error and leaves the layout and
\* the selection as they were.
C2_CollisionRejected ==
    [][CollidingCall =>
        /\ last'.outcome = "collision"
        /\ collisionError' = CollisionMessage
        /\ modules' = modules
        /\ selectedModuleId' = selectedModuleId]_vars

----------------------------------------------------------------------------
(* C3 *)

\* C3: no two modules of the layout have the same id.
C3_UniqueIds ==
    \A i, j \in Indices : i # j => modules[i].id # modules[j].id

----------------------------------------------------------------------------
(* C4 *)

\* some module of the layout has the fields of a freshly added `type`
HoldsNew(layout, type) ==
    \E j \in 1..Len(layout) :
        /\ layout[j].type = type
        /\ layout[j].position = Origin
        /\ layout[j].scale = ScaleDen

\* C4: addModule(type) succeeds whenever no existing module's box overlaps
\* the scale-1 box at the origin, and after it the new module and every
\* module placed before are in the layout.
C4_AddSucceeds ==
    [][(last'.op = "add" /\ ~OverlapsOther(0, Origin, ScaleDen)) =>
        /\ last'.outcome = "ok"
        /\ collisionError' = collisionError
        /\ Len(modules') = Len(modules) + 1
        /\ HoldsNew(modules', last'.type)
        /\ \A i \in Indices : \E j \in 1..Len(modules') : modules'[j] = modules[i]]_vars

\* an add succeeded next to a module that shares the origin on the x axis
C4_Witness ==
    /\ last.op = "add"
    /\ last.outcome = "ok"
    /\ Len(modules) = 2
    /\ modules[1].position[1] = 0
    /\ modules[1].position # Origin

----------------------------------------------------------------------------
(* C5 *)

\* the module addModule(type) is to build at clock reading `now`
Fresh(type, now) ==
    [id       |-> type \o "-" \o ToString(now),
     type     |-> type,
     position |-> Origin,
     rotation |-> Origin,
     scale    |-> ScaleDen,
     cost     |-> MODULE_SPECS[type].baseCost * ScaleDen * ScaleDen * ScaleDen,
     mass     |-> MODULE_SPECS[type].baseMass * ScaleDen * ScaleDen * ScaleDen,
     volume   |-> MODULE_SPECS[type].baseVolume * ScaleDen * ScaleDen * ScaleDen]

\* C5: a successful addModule(type) appends exactly one module as the last
\* element of the layout, at the origin, unrotated, with scale 1 and the
\* type's base cost, mass and volume, leaves the existing modules as they
\* were and selects the new module.
C5_AddAppends ==
    [][(last'.op = "add" /\ last'.outcome = "ok") =>
        /\ modules' = Append(modules, Fresh(last'.type, clock))
        /\ selectedModuleId' = modules'[Len(modules')].id]_vars

\* a second module was appended behind a first one
C5_Witness ==
    /\ last.op = "add"
    /\ last.outcome = "ok"
    /\ Len(modules) = 2
    /\ selectedModuleId = modules[2].id
    /\ modules[2].type = "eclss"

----------------------------------------------------------------------------
(* C6 *)

Present(layout, id) == \E i \in 1..Len(layout) : layout[i].id = id

\* C6: deleteModule(id) with an id that is not in the layout changes neither
\* the layout nor the selection and raises no error; and after any
\* deleteModule(id) the id is in neither, so that a second deleteModule(id)
\* is such a no-op.
C6_DeleteAbsent ==
    [][last'.op = "delete" =>
        /\ ~Present(modules, last'.id) =>
              /\ modules' = modules
              /\ selectedModuleId' = selectedModuleId
              /\ collisionError' = collisionError
              /\ timers' = timers
              /\ last'.outcome = "ok"
        /\ ~Present(modules', last'.id)
        /\ selectedModuleId' # last'.id]_vars

\* the only event after an add was a delete, and the module is still there
\* and selected: the delete named an id that was not in the layout
C6_Witness ==
    /\ last.op = "delete"
    /\ events = 2
    /\ Len(modules) = 1
    /\ selectedModuleId = modules[1].id

----------------------------------------------------------------------------
(* C7 *)

RECURSIVE Without(_, _)
\* the layout without the modules whose id is `id`, the others in their order
Without(layout, id) ==
    IF layout = <<>> THEN <<>>
    ELSE IF Head(layout).id = id THEN Without(Tail(layout), id)
    ELSE <<Head(layout)>> \o Without(Tail(layout), id)

\* C7: deleteModule(id) removes the module with that id, with no collision
\* check and so no collision error; the selection becomes none if id was
\* selected and is kept otherwise.
C7_DeleteRemoves ==
    [][last'.op = "delete" =>
        /\ modules' = Without(modules, last'.id)
        /\ last'.outcome = "ok"
        /\ collisionError' = collisionError
        /\ timers' = timers
        /\ selectedModuleId = last'.id => selectedModuleId' = Null
        /\ selectedModuleId # last'.id => selectedModuleId' = selectedModuleId]_vars

\* the selected one of two modules was deleted
C7_Witness ==
    /\ last.op = "delete"
    /\ events = 4
    /\ Len(modules) = 1
    /\ selectedModuleId = Null
    /\ storage = NoItem

----------------------------------------------------------------------------
(* C8 *)

\* C8: updateModulePosition(axis, value) on the selected module tests the
\* candidate position (only the given axis replaced) against all other
\* modules and never against the module itself; if none collides the
\* module's position becomes the candidate, otherwise it is unchanged.
C8_Reposition ==
    [][(last'.op = "position" /\ selectedIndex # 0) =>
        /\ Len(modules') = Len(modules)
        /\ modules'[selectedIndex].position =
              IF OverlapsOther(selectedIndex, Candidate, modules[selectedIndex].scale)
              THEN modules[selectedIndex].position
              ELSE Candidate]_vars

----------------------------------------------------------------------------
(* C9 *)

\* C9: a successful updateModuleScale(s) sets the module's scale to s and its
\* cost, mass and volume to the type's base values times s^3, whatever its
\* scale and cached values were before; for s = 1 these are the base values
\* the module was created with.
C9_RescaleCubic ==
    [][(last'.op = "scale" /\ last'.outcome = "ok") =>
        LET k == selectedIndex
            type == modules[k].type
            s == last'.value
            after == modules'[k]
        IN  /\ k # 0
            /\ Len(modules') = Len(modules)
            /\ after.scale = s
            /\ after.cost = MODULE_SPECS[type].baseCost * s * s * s
            /\ after.mass = MODULE_SPECS[type].baseMass * s * s * s
            /\ after.volume = MODULE_SPECS[type].baseVolume * s * s * s
            /\ s = ScaleDen =>
                  /\ after.cost = Fresh(type, 0).cost
                  /\ after.mass = Fresh(type, 0).mass
                  /\ after.volume = Fresh(type, 0).volume]_vars

\* a module that had been rescaled to 2, and saved so, was rescaled to 0.5
C9_Witness ==
    /\ last.op = "scale"
    /\ last.outcome = "ok"
    /\ last.value = 5
    /\ Len(modules) = 1
    /\ storage.kind = "jsonObject"
    /\ Len(SavedModules(storage)) = 1
    /\ Field(SavedModules(storage)[1], "id") = modules[1].id
    /\ Field(SavedModules(storage)[1], "scale") = 20

----------------------------------------------------------------------------
(* C10 *)

\* the pairs of modules whose boxes overlap
CollidingPairs(layout) ==
    {<<i, j>> \in (1..Len(layout)) \X (1..Len(layout)) :
        /\ i # j
        /\ BoxesOverlap(layout[i].position, layout[i].scale,
                        layout[j].position, layout[j].scale)}

\* r is degrees * pi / 180 in microradians, rounded down
IsRadiansOf(r, degrees) ==
    /\ r * 180 <= degrees * 3141593
    /\ degrees * 3141593 < (r + 1) * 180

\* C10: updateModuleRotation(axis, degrees) on an existing module always
\* succeeds: it sets only the given rotation component, to
\* degrees * pi / 180, raises no collision error and leaves every module's
\* position and scale, and so the set of colliding pairs, as they were.
C10_RotationFrame ==
    [][(last'.op = "rotation" /\ selectedIndex # 0) =>
        LET k == selectedIndex
            a == axisIndex(last'.axis)
        IN  /\ last'.outcome = "ok"
            /\ Len(modules') = Len(modules)
            /\ IsRadiansOf(modules'[k].rotation[a], last'.value)
            /\ \A b \in (1..3) \ {a} :
                  modules'[k].rotation[b] = modules[k].rotation[b]
            /\ \A i \in Indices :
                  /\ modules'[i].position = modules[i].position
                  /\ modules'[i].scale = modules[i].scale
            /\ collisionError' = collisionError
            /\ timers' = timers
            /\ CollidingPairs(modules') = CollidingPairs(modules)]_vars

\* a module already rotated about one axis was rotated about another, next
\* to a second module
C10_Witness ==
    /\ last.op = "rotation"
    /\ last.outcome = "ok"
    /\ last.axis = "y"
    /\ Len(modules) = 2
    /\ selectedIndex # 0
    /\ modules[selectedIndex].rotation[1] # 0
    /\ modules[selectedIndex].rotation[2] # 0

----------------------------------------------------------------------------
(* C11 *)

\* the timer that fires next was started by an error older than the one
\* the notice now shows
OlderTimerFires == last'.op = "timer" /\ timers > 1

\* C11: when a second collision error occurs before the first error's timer
\* has fired, the first timer is cancelled or replaced: the timer of an
\* older error never clears the notice of a newer one.
C11_TimerReplaced ==
    [][OlderTimerFires => collisionError' = collisionError]_vars

----------------------------------------------------------------------------
(* C20 *)

\* C20: every collision notice is eventually cleared: once the pending
\* timers have fired and no further collision occurs, the notice is none.
C20_NoticeCleared ==
    /\ [](collisionError # Null => timers > 0)
    /\ (collisionError # Null) ~> (collisionError = Null)

\* the notice of a failed call has been cleared by its timer
C20_Witness ==
    /\ last.op = "timer"
    /\ collisionError = Null
    /\ timers = 0
    /\ events = 2

----------------------------------------------------------------------------
(* C12 *)

\* the text does not parse as JSON, or the value it parses to carries no
\* modules
Malformed(text) ==
    \/ text.kind \in {"garbage", "jsonNull"}
    \/ /\ text.kind = "jsonObject"
       /\ \A i \in 1..Len(text.value) : text.value[i][1] # "modules"

LoadStep == last'.op = "load"

\* C12: loadDesign on a malformed stored record (text that is no JSON, or a
\* parsed value without a modules array) reports a load failure and leaves
\* the layout and the selection as they were.
C12_MalformedLoadFails ==
    [][LoadStep /\ Malformed(storage) =>
           /\ last'.outcome = FailedAlert
           /\ modules' = modules
           /\ selectedModuleId' = selectedModuleId
           /\ mounted']_vars

----------------------------------------------------------------------------
(* C13 *)

\* the layout a stored design describes, read property by property
Restored(text) ==
    LET array == SavedModules(text)
    IN  [i \in 1..Len(array) |->
            [id       |-> Field(array[i], "id"),
             type     |-> Field(array[i], "type"),
             position |-> Field(array[i], "position"),
             rotation |-> Field(array[i], "rotation"),
             scale    |-> Field(array[i], "scale"),
             cost     |-> Field(array[i], "cost"),
             mass     |-> Field(array[i], "mass"),
             volume   |-> Field(array[i], "volume")]]

\* C13: round trip.  saveDesign writes a record that describes the layout
\* of that moment; no later edit touches the record; loadDesign makes the
\* layout the one the record describes, module by module in the same
\* order, and sets the selection to none.
C13_RoundTrip ==
    [][/\ last'.op = "save" => Restored(storage') = modules
       /\ last'.op # "save" => storage' = storage
       /\ LoadStep /\ storage # NoItem =>
              /\ last'.outcome = LoadedAlert
              /\ modules' = Restored(storage)
              /\ selectedModuleId' = Null]_vars

\* a design saved at scale 2 and away from the origin has been loaded
C13_Witness ==
    /\ last.op = "load"
    /\ last.outcome = LoadedAlert
    /\ Len(modules) = 1
    /\ modules[1].scale = 20
    /\ modules[1].position # Origin
    /\ modules = Restored(storage)
    /\ selectedModuleId = Null
    /\ events = 5

----------------------------------------------------------------------------
(* C14 *)

\* C14: loadDesign with no record in the slot ends with the "nothing to
\* load" outcome, which is neither the success nor the failure outcome and
\* is given in no other case, and leaves the layout and the selection as
\* they were.
C14_NothingToLoad ==
    /\ NothingAlert \notin {LoadedAlert, FailedAlert}
    /\ [][LoadStep =>
             /\ last'.outcome = NothingAlert <=> storage = NoItem
             /\ storage = NoItem =>
                    /\ modules' = modules
                    /\ selectedModuleId' = selectedModuleId]_vars

\* a load found no record while a module was there and selected
C14_Witness ==
    /\ last.op = "load"
    /\ last.outcome = NothingAlert
    /\ Len(modules) = 1
    /\ selectedModuleId = modules[1].id

----------------------------------------------------------------------------
(* C15 *)

\* the sum of a field over the modules from the i-th on
RECURSIVE SumFrom(_, _, _)
SumFrom(layout, field, i) ==
    IF i > Len(layout) THEN 0 ELSE layout[i][field] + SumFrom(layout, field, i + 1)

\* thousandths of a unit of cost, mass or volume
Thousandths(n) == n * Cube(ScaleDen)

\* one dormitory and one eclss, both at scale 1
ExampleLayout ==
    /\ Len(modules) = 2
    /\ {modules[i].type : i \in Indices} = {"dormitory", "eclss"}
    /\ \A i \in Indices : modules[i].scale = ScaleDen

\* C15: in every reachable state hardware cost is the sum of the modules'
\* costs, total mass is 10000 plus the sum of their masses, total volume is
\* the sum of their volumes (sums zero for the empty layout); one scale-1
\* dormitory and one scale-1 eclss give 195, 30000 and 200.
C15_Aggregates ==
    /\ totalHardwareCost = SumFrom(modules, "cost", 1)
    /\ totalMass = Thousandths(10000) + SumFrom(modules, "mass", 1)
    /\ totalVolume = SumFrom(modules, "volume", 1)
    /\ modules = <<>> =>
           /\ totalHardwareCost = 0
           /\ totalMass = Thousandths(10000)
           /\ totalVolume = 0
    /\ ExampleLayout =>
           /\ totalHardwareCost = Thousandths(195)
           /\ totalMass = Thousandths(30000)
           /\ totalVolume = Thousandths(200)

\* the layout of the example stands, the second module away from the first
C15_Witness ==
    /\ ExampleLayout
    /\ modules[1].position # modules[2].position
    /\ totalMass = Thousandths(30000)

----------------------------------------------------------------------------
(* C16 *)

NhvProbed == probe.fn = "nhvCompliance"

\* C16: the NHV check passes iff total habitable volume >= 115.83: it
\* passes at exactly 115.83, fails at 115.82 and fails at 0, the volume of
\* the empty layout.
C16_NhvThreshold ==
    /\ NhvProbed =>
           /\ probe.output = "true" <=> probe.input[1] >= 115830
           /\ probe.input[1] = 115830 => probe.output = "true"
           /\ probe.input[1] = 115820 => probe.output = "false"
           /\ probe.input[1] = 0 => probe.output = "false"
    /\ modules = <<>> => totalVolume = 0 /\ ~nhvCompliance.pass

\* the check has passed a volume of exactly 115.83
C16_Witness ==
    /\ NhvProbed
    /\ probe.input = <<115830>>
    /\ probe.output = "true"

----------------------------------------------------------------------------
(* C17 *)

VehicleProbed == probe.fn = "logistics"

\* C17: the vehicle is chosen by total mass strictly greater than 50000:
\* 50000 gives "Ares V Heavy Lift", 50001 gives "Starship HLS Variant",
\* and no other label is ever given.
C17_VehicleBoundary ==
    /\ VehicleProbed =>
           /\ probe.output \in {"Ares V Heavy Lift", "Starship HLS Variant"}
           /\ probe.output = "Starship HLS Variant" <=> probe.input[1] > 50000000
           /\ probe.input[1] = 50000000 => probe.output = "Ares V Heavy Lift"
           /\ probe.input[1] = 50001000 => probe.output = "Starship HLS Variant"
    /\ logistics.vehicle \in {"Ares V Heavy Lift", "Starship HLS Variant"}

\* the rule has been applied at exactly 50000
C17_Witness ==
    /\ VehicleProbed
    /\ probe.input = <<50000000>>
    /\ probe.output = "Ares V Heavy Lift"

----------------------------------------------------------------------------
(* C18 *)

CollisionProbed == probe.fn = "checkAABBCollision"

\* the arguments of the probed call
ProbedPos1 == SubSeq(probe.input, 1, 3)
ProbedScale1 == probe.input[4]
ProbedPos2 == SubSeq(probe.input, 5, 7)
ProbedScale2 == probe.input[8]

Distance(a, b) == IF a > b THEN a - b ELSE b - a

\* |p1[k] - p2[k]| < (2 * s1 + 2 * s2) / 2, both sides times
\* 2 * PosDen * ScaleDen
CloserThanHalfSizes(k) ==
    2 * ScaleDen * Distance(ProbedPos1[k], ProbedPos2[k])
        < PosDen * (2 * ProbedScale1 + 2 * ProbedScale2)

\* on axis k the two boxes touch or lie apart
ApartOn(k) ==
    \/ BoxHi(ProbedPos1[k], ProbedScale1) <= BoxLo(ProbedPos2[k], ProbedScale2)
    \/ BoxHi(ProbedPos2[k], ProbedScale2) <= BoxLo(ProbedPos1[k], ProbedScale1)

\* C18: checkAABBCollision is true iff on all three axes the distance is
\* strictly less than (2*s1 + 2*s2)/2; it is symmetric in its two modules;
\* boxes that touch or lie apart on some axis do not collide.
C18_CollisionPredicate ==
    CollisionProbed =>
        /\ probe.output = "true" <=> \A k \in 1..3 : CloserThanHalfSizes(k)
        /\ probe.output =
               Truth(checkAABBCollision(ProbedPos2, ProbedScale2, ProbedPos1, ProbedScale1))
        /\ (\E k \in 1..3 : ApartOn(k)) => probe.output = "false"

\* two scale-1 modules that touch on x and coincide on y and z do not collide
C18_Witness ==
    /\ CollisionProbed
    /\ probe.input = <<0, 0, 0, ScaleDen, 4, 0, 0, ScaleDen>>
    /\ probe.output = "false"

----------------------------------------------------------------------------
(* C19 *)

\* the module's cached values are its type's base values times scale^3
Cubic(m) ==
    /\ m.cost = MODULE_SPECS[m.type].baseCost * Cube(m.scale)
    /\ m.mass = MODULE_SPECS[m.type].baseMass * Cube(m.scale)
    /\ m.volume = MODULE_SPECS[m.type].baseVolume * Cube(m.scale)

AllCubic == \A i \in Indices : Cubic(modules[i])

Cached(m) == <<m.cost, m.mass, m.volume>>

\* every module that is in the layout before and after the step has the
\* cached values after it that it had before; the module an add appends
\* was not there before
CachedKept ==
    \A j \in 1..Len(modules') :
        \/ \A i \in Indices : modules[i].id # modules'[j].id
        \/ \E i \in Indices :
               /\ modules[i].id = modules'[j].id
               /\ Cached(modules[i]) = Cached(modules'[j])
        \/ last'.op = "add" /\ j = Len(modules') /\ j > Len(modules)

SuccessfulRescale == last'.op = "scale" /\ last'.outcome = "ok"

\* C19 as stated: in every reachable state every module's cached cost, mass
\* and volume are its type's base values times the cube of its scale, and
\* no operation other than a successful rescale changes them.
C19_CachedCubic ==
    /\ []AllCubic
    /\ [][~SuccessfulRescale => CachedKept]_vars

\* C19 amended: ... and no operation other than a successful rescale or a
\* loadDesign, which puts back the values of the saved design, changes them.
C19_CachedCubicOrLoaded ==
    /\ []AllCubic
    /\ [][~SuccessfulRescale /\ ~LoadStep => CachedKept]_vars
    /\ [][LoadStep /\ last'.outcome = LoadedAlert =>
             \A j \in 1..Len(modules') :
                 Cached(modules'[j]) = Cached(Restored(storage)[j])]_vars

\* a rescaled module stands next to one at scale 1, each with the cached
\* values of its own scale
C19_Witness ==
    /\ Len(modules) = 2
    /\ modules[1].scale = 5
    /\ modules[2].scale = ScaleDen
    /\ modules[1].volume = 15000
    /\ AllCubic

----------------------------------------------------------------------------
(* C21 *)

ShieldingProbed == probe.fn = "radiationShielding"

\* moduleCount * 15 + totalMass / 1000 compared with 200, both sides times
\* 1000000 (the mass is in thousandths of a kg)
ScoreAtLeast200 == probe.input[1] * 15000000 + probe.input[2] >= 200000000

\* C21: the radiation shielding check computes score = moduleCount*15 +
\* totalMass/1000 and passes iff score >= 200, a score of exactly 200
\* passing; for the empty layout the score is 10 and the check fails.
C21_ShieldingThreshold ==
    /\ ShieldingProbed =>
           /\ probe.output = "true" <=> ScoreAtLeast200
           /\ probe.input \in {<<0, 200000000>>, <<1, 185000000>>, <<2, 170000000>>}
                  => probe.output = "true"
           /\ probe.input \in {<<0, 199999999>>, <<1, 184999999>>, <<2, 169999999>>}
                  => probe.output = "false"
    /\ modules = <<>> =>
           /\ radiationShielding.score = 10000000
           /\ ~radiationShielding.pass

\* the check has passed two modules and 170000 kg: a score of exactly 200
C21_Witness ==
    /\ ShieldingProbed
    /\ probe.input = <<2, 170000000>>
    /\ probe.output = "true"

----------------------------------------------------------------------------
(* C22 *)

\* the modules the display shows as selected: module.id === selectedModuleId
SelectedModules == {i \in Indices : modules[i].id = selectedModuleId}

\* C22: in every reachable state the selection is none or the id of a
\* module of the layout, and at most one module is selected.
C22_SelectionValid ==
    /\ selectedModuleId = Null \/ Present(modules, selectedModuleId)
    /\ Cardinality(SelectedModules) <= 1

----------------------------------------------------------------------------
(* C23 *)

\* a successful call of updateModulePosition, updateModuleRotation or
\* updateModuleScale
SuccessfulEdit ==
    /\ last'.op \in {"position", "rotation", "scale"}
    /\ last'.outcome = "ok"

\* the modules are as many as before, each with the id and the type it had
SameModules ==
    /\ Len(modules') = Len(modules)
    /\ \A i \in Indices :
           /\ modules'[i].id = modules[i].id
           /\ modules'[i].type = modules[i].type

\* every module but the targeted one, which the edit panel shows, is as it was
OthersUntouched == \A i \in Indices \ {selectedIndex} : modules'[i] = modules[i]

\* C23: a successful updateModulePosition, updateModuleRotation or
\* updateModuleScale changes only the targeted module: the number of
\* modules, their order, ids and types, every field of every other module
\* and the selection stay as they were; deleteModule keeps the remaining
\* modules in their order with all their fields.
C23_EditFrame ==
    [][/\ SuccessfulEdit =>
              /\ SameModules
              /\ OthersUntouched
              /\ selectedModuleId' = selectedModuleId
       /\ last'.op = "delete" => modules' = Without(modules, last'.id)]_vars

----------------------------------------------------------------------------
(* C24 *)

\* the selection is none, or names no module of the layout
NothingSelected == selectedModuleId = Null \/ ~Present(modules, selectedModuleId)

EditCall == last'.op \in {"position", "rotation", "scale"}

\* C24: with no module selected, updateModulePosition, updateModuleRotation
\* and updateModuleScale do nothing: the layout, the selection and the
\* collision notice stay as they were.
C24_EditWithoutSelection ==
    [][EditCall /\ NothingSelected =>
           /\ modules' = modules
           /\ selectedModuleId' = selectedModuleId
           /\ collisionError' = collisionError
           /\ timers' = timers]_vars

\* a rescale was called with nothing selected, a module in the layout and
\* a notice on display, and all three are still there
C24_Witness ==
    /\ last.op = "scale"
    /\ last.outcome = "noop"
    /\ selectedModuleId = Null
    /\ Len(modules) = 1
    /\ collisionError = CollisionMessage

====
